---- MODULE Spec2Model ----
(***************************************************************************)
(* The session and task state controller of the Task Manager client       *)
(* (frontend/src/App.tsx): the App component's state cells, its handlers, *)
(* the fetches they have in flight, and the remote task service they      *)
(* talk to.  A handler suspends at each fetch; the server answering a     *)
(* request and the handler resuming on the answer are separate steps, so  *)
(* answers may be overtaken by other events.                              *)
(***************************************************************************)
EXTENDS Integers, FiniteSets, Sequences, Bags, TLC

VARIABLES
    app,          \* the useState cells of App (App.tsx:17-32)
    ops,          \* bag of suspended handler invocations, one per pending fetch
    serverTasks,  \* the remote task list (GET /api/tasks)
    nextId,       \* the id the server gives the next created task
    fetches,      \* fetch calls made so far, or owed by the handlers under way
    limit,        \* fetch calls this run may make
    authForm,     \* the useState cells of AuthForm (AuthForm.tsx:36-43)
    taskList,     \* the props of TaskList and the board it rendered from them
    extracted     \* a failed response and what extractErrorMessage made of it

vars == <<app, ops, serverTasks, nextId, fetches, limit, authForm, taskList, extracted>>

\* ------------------------------------------------------------------ bounds
MaxTasks == 2     \* task ids the server ever hands out
MaxFetches == 7   \* fetch calls the client makes in one run
MaxViewFetches == 5   \* the same, in runs that also take the view-only events
MaxAuthFetches == 9   \* the same, in runs that follow the auth form field by field
MaxCardFetches == 9   \* the same, in runs that follow the task cards only
MaxBoardTasks == 3    \* tasks in a list handed to TaskList
MaxErrors == 2        \* entries in the errors list of an error body

\* --------------------------------------------------------------- constants
TaskIds == 1..MaxTasks
NoTask == 0
NoUser == "none"
TheUser == "u1"
ServerUsers == {TheUser}
Status == {"todo", "in_progress", "done"}
Absent == "absent"
FilterOption == {"all"} \cup Status
NoTasks == [i \in TaskIds |-> Absent]

NoMessage == "none"
SessionExpired == "expired"     \* 'Your session has expired. Please log in again.'
ErrorMessage == "message"       \* extractErrorMessage(response), or err.message

AuthKinds == {"login", "register"}
FetchKinds == {"users", "tasks"}
SubmitKinds == {"create", "update"}
BusyKinds == {"status", "delete"}
MutationKinds == SubmitKinds \cup BusyKinds

\* Status buttons the board offers for a task in each column.
columns ==
    [todo |-> {"in_progress"}, in_progress |-> {"done", "todo"}, done |-> {"in_progress"}]

\* ------------------------------------------------------- suspended handlers
\* kind: the handler; task / st: the values its closure captured; pc: where it
\* is suspended ("sent": its request is under way; "applied": the server has
\* carried the mutation out; "answered": the server has read the list for a
\* GET; "rsent" / "ranswered": the same for the refresh nested in a mutation);
\* data: the list the GET read; fresh: no mutation was applied since.
Op(kind, task, st) ==
    [kind |-> kind, task |-> task, st |-> st, pc |-> "sent", data |-> NoTasks,
     fresh |-> FALSE]

NumOps == BagCardinality(ops)
InFlight(o) == BagIn(o, ops)
Put(o, B) == B (+) SetToBag({o})
Take(o, B) == B (-) SetToBag({o})
Stale(B) == BagOfAll(LAMBDA o : [o EXCEPT !.fresh = FALSE], B)

\* ------------------------------------------------------------------- state
\* Text a field can hold: a sequence of characters, a blank among them.
Repeat(c, n) == [i \in 1..n |-> c]

\* String.prototype.trim
RECURSIVE trim(_)
trim(str) ==
    IF str = <<>> THEN str
    ELSE IF Head(str) = " " THEN trim(Tail(str))
    ELSE IF str[Len(str)] = " " THEN trim(SubSeq(str, 1, Len(str) - 1))
    ELSE str

MinPassword == 6
\* What the user types: nothing, a blank, text with a trailing blank ...
Texts == {<<>>, <<" ">>, <<"a", " ">>}
\* ... and, as a password: nothing, three characters, MinPassword characters,
\* MinPassword blanks.
Passwords == {<<>>, Repeat("a", 3), Repeat("a", MinPassword), Repeat(" ", MinPassword)}

EnterCredentials == "Enter your email and password."
CompleteFields == "Complete all fields to continue."
PasswordTooShort == "Password must be at least 6 characters."
PasswordsDiffer == "Passwords do not match."

NoLoginData == [email |-> <<>>, password |-> <<>>]
NoRegisterData == [name |-> <<>>, email |-> <<>>, password |-> <<>>, confirmPassword |-> <<>>]
InitAuthForm ==
    [loginData |-> NoLoginData, registerData |-> NoRegisterData, localError |-> NoMessage]

InitApp ==
    [currentUser |-> NoUser, authMode |-> "login", authLoading |-> TRUE,
     authSubmitting |-> FALSE, authError |-> NoMessage, tasks |-> NoTasks,
     users |-> {}, filter |-> "all", tasksLoading |-> FALSE,
     usersLoading |-> FALSE, error |-> NoMessage, isFormVisible |-> FALSE,
     editingTask |-> NoTask, isSubmitting |-> FALSE, busyTaskId |-> NoTask,
     pendingDeleteTask |-> NoTask]

closeForm(s) == [s EXCEPT !.isFormVisible = FALSE, !.editingTask = NoTask]

\* A reset that leaves the status filter as the user set it.
resetSession_KeepsFilter(s, message) ==
    [closeForm(s) EXCEPT !.tasks = NoTasks, !.users = {}, !.busyTaskId = NoTask,
                         !.editingTask = NoTask, !.pendingDeleteTask = NoTask,
                         !.currentUser = NoUser, !.error = NoMessage,
                         !.authMode = "login", !.authError = message]

resetSession(s, message) ==
    [closeForm(s) EXCEPT !.tasks = NoTasks, !.users = {}, !.busyTaskId = NoTask,
                         !.editingTask = NoTask, !.pendingDeleteTask = NoTask,
                         !.currentUser = NoUser, !.error = NoMessage,
                         !.filter = "all", !.authMode = "login",
                         !.authError = message]

handleUnauthorized(s) == resetSession(s, SessionExpired)

\* -------------------------------------------------- collection synchronizer
\* loadUsers / refreshTasks up to their fetch: the loading flag is raised and
\* the GET leaves.
loadUsersStart(r) ==
    [app |-> [r.app EXCEPT !.usersLoading = TRUE],
     ops |-> Put(Op("users", NoTask, "-"), r.ops)]

refreshTasksStart(r) ==
    [app |-> [r.app EXCEPT !.tasksLoading = TRUE],
     ops |-> Put(Op("tasks", NoTask, "-"), r.ops)]

\* A user-list load that empties the list when it fails.
loadUsersDone_ClearsOnFailure(s, res) ==
    LET t == CASE res = "unauth" -> handleUnauthorized(s)
               [] res = "ok" -> [s EXCEPT !.users = ServerUsers, !.error = NoMessage]
               [] OTHER -> [s EXCEPT !.users = {}, !.error = ErrorMessage]
    IN [t EXCEPT !.usersLoading = FALSE]

\* loadUsers from its response on.
loadUsersDone(s, res) ==
    LET t == CASE res = "unauth" -> handleUnauthorized(s)
               [] res = "ok" -> [s EXCEPT !.users = ServerUsers, !.error = NoMessage]
               [] OTHER -> [s EXCEPT !.error = ErrorMessage]
    IN [t EXCEPT !.usersLoading = FALSE]

\* A refresh that drops the list it was sent.
refreshTasksDone_KeepsList(s, res, data) ==
    LET t == CASE res = "unauth" -> handleUnauthorized(s)
               [] res = "ok" -> [s EXCEPT !.error = NoMessage]
               [] OTHER -> [s EXCEPT !.error = ErrorMessage]
    IN [t EXCEPT !.tasksLoading = FALSE]

\* refreshTasks from its response on.
refreshTasksDone(s, res, data) ==
    LET t == CASE res = "unauth" -> handleUnauthorized(s)
               [] res = "ok" -> [s EXCEPT !.tasks = data, !.error = NoMessage]
               [] OTHER -> [s EXCEPT !.error = ErrorMessage]
    IN [t EXCEPT !.tasksLoading = FALSE]

\* The effects with the one that starts refreshTasks left out.
currentUserEffects_UsersOnly(s0, s1, B) ==
    IF s1.currentUser = s0.currentUser
    THEN [app |-> s1, ops |-> B]
    ELSE IF s1.currentUser # NoUser
    THEN loadUsersStart([app |-> s1, ops |-> B])
    ELSE [app |-> [s1 EXCEPT !.users = {}, !.tasks = NoTasks], ops |-> B]

\* The two effects on currentUser, run after a render in which it changed:
\* a present identity starts both loads, an absent one empties both lists.
currentUserEffects(s0, s1, B) ==
    IF s1.currentUser = s0.currentUser
    THEN [app |-> s1, ops |-> B]
    ELSE IF s1.currentUser # NoUser
    THEN refreshTasksStart(loadUsersStart([app |-> s1, ops |-> B]))
    ELSE [app |-> [s1 EXCEPT !.users = {}, !.tasks = NoTasks], ops |-> B]

\* The fetch calls a handler of a kind can make: its own, the refresh nested in
\* a mutation, the two loads the effects start once an identity is present.
Cost(kind) ==
    CASE kind \in {"me"} \cup AuthKinds -> 3
      [] kind \in MutationKinds -> 2
      [] OTHER -> 1

\* One step of the program: the state cells become s1, the bag of suspended
\* handlers becomes B, and the effects run.
\* AuthForm is rendered only while there is no identity, so its cells f1 are
\* lost (and start afresh at its next mount) once there is one.
Render(s1, B, f1) ==
    LET r == currentUserEffects(app, s1, B)
    IN /\ app' = r.app
       /\ ops' = r.ops
       /\ authForm' = IF r.app.currentUser # NoUser THEN InitAuthForm ELSE f1
       /\ UNCHANGED <<serverTasks, nextId, fetches, limit, taskList, extracted>>

Commit(s1, B) == Render(s1, B, authForm)

\* A user event that starts handler o: the state cells become s1 and the
\* handler's request leaves.
Send(s1, o, f1) ==
    /\ fetches + Cost(o.kind) <= limit
    /\ app' = s1
    /\ ops' = Put(o, ops)
    /\ fetches' = fetches + Cost(o.kind)
    /\ authForm' = f1
    /\ UNCHANGED <<serverTasks, nextId, limit, taskList, extracted>>

Request(s1, o) == Send(s1, o, authForm)

\* ------------------------------------------------------------ what is shown
MainUI == app.currentUser # NoUser
isLoading == app.tasksLoading \/ app.usersLoading
showLoader == isLoading /\ app.tasks = NoTasks
CardShown(t) == MainUI /\ ~showLoader /\ app.tasks[t] # Absent
isBusy(t) == app.busyTaskId = t

\* ------------------------------------------------------- session controller
\* What the form shows as its error.
activeError ==
    IF authForm.localError # NoMessage THEN authForm.localError ELSE app.authError

\* The checks of AuthForm.handleSubmit on the fields f of the given mode: the
\* message it sets, or none.
localValidation(mode, f) ==
    IF mode = "login"
    THEN IF trim(f.loginData.email) = <<>> \/ f.loginData.password = <<>>
         THEN EnterCredentials
         ELSE NoMessage
    ELSE LET d == f.registerData
         IN IF trim(d.name) = <<>> \/ trim(d.email) = <<>> \/ d.password = <<>>
            THEN CompleteFields
            ELSE IF Len(d.password) < MinPassword
            THEN PasswordTooShort
            ELSE IF d.password # d.confirmPassword
            THEN PasswordsDiffer
            ELSE NoMessage

\* AuthForm.handleSubmit run on the cells f, then handleLogin / handleRegister
\* up to the fetch.
handleSubmit(f) ==
    /\ ~MainUI
    /\ ~(app.authSubmitting \/ app.authLoading)
    /\ LET g == [f EXCEPT !.localError = NoMessage]
           s == [app EXCEPT !.authError = NoMessage]
           e == localValidation(app.authMode, g)
       IN IF e # NoMessage
          THEN Render(s, ops, [g EXCEPT !.localError = e])
          ELSE Send([s EXCEPT !.authSubmitting = TRUE],
                    Op(app.authMode, NoTask, "-"), g)

\* The submit button, with the fields as they are.
AuthFormSubmit == handleSubmit(authForm)

\* Fields that pass the checks.
ValidLogin == [email |-> <<"a", " ">>, password |-> Repeat("a", MinPassword)]
ValidRegister ==
    [name |-> <<"a", " ">>, email |-> <<"a", " ">>,
     password |-> Repeat("a", MinPassword), confirmPassword |-> Repeat("a", MinPassword)]

\* The user fills the fields of the current mode in correctly and submits.
SubmitAuth ==
    handleSubmit(IF app.authMode = "login"
                 THEN [authForm EXCEPT !.loginData = ValidLogin]
                 ELSE [authForm EXCEPT !.registerData = ValidRegister])

\* The fields the form shows in each mode, and what can be typed in each.
AuthFields ==
    [login |-> {"email", "password"},
     register |-> {"name", "email", "password", "confirmPassword"}]
Typed(field) == IF field \in {"name", "email"} THEN Texts ELSE Passwords

\* The onChange handler of an input of AuthForm.
onChange(field, value) ==
    /\ ~MainUI
    /\ field \in AuthFields[app.authMode]
    /\ value \in Typed(field)
    /\ Render([app EXCEPT !.authError = NoMessage], ops,
              IF app.authMode = "login"
              THEN [authForm EXCEPT !.loginData[field] = value]
              ELSE [authForm EXCEPT !.registerData[field] = value])

handleModeToggle(nextMode) ==
    /\ ~MainUI
    /\ Render([app EXCEPT !.authError = NoMessage, !.authMode = nextMode], ops,
              IF nextMode = app.authMode THEN authForm
              ELSE IF nextMode = "login"
              THEN [authForm EXCEPT !.localError = NoMessage, !.registerData = NoRegisterData]
              ELSE [authForm EXCEPT !.localError = NoMessage, !.loginData = NoLoginData])

handleLogout ==
    /\ MainUI
    /\ Request(app, Op("logout", NoTask, "-"))

\* ------------------------------------------------ modal/workflow coordinator
openCreateForm ==
    /\ MainUI
    /\ ~app.usersLoading
    /\ Commit([app EXCEPT !.editingTask = NoTask, !.isFormVisible = TRUE], ops)

onEdit(t) ==
    /\ CardShown(t)
    /\ ~isBusy(t)
    /\ Commit([app EXCEPT !.editingTask = t, !.isFormVisible = TRUE], ops)

\* The overlay and the Close button are never disabled.
CloseFormClick ==
    /\ MainUI
    /\ app.isFormVisible
    /\ Commit(closeForm(app), ops)

setFilter(f) ==
    /\ MainUI
    /\ f # app.filter
    /\ Commit([app EXCEPT !.filter = f], ops)

DismissError ==
    /\ MainUI
    /\ app.error # NoMessage
    /\ Commit([app EXCEPT !.error = NoMessage], ops)

\* A single-phase delete: the click on the card sends the DELETE at once.
handleDeleteTask_SinglePhase(t) ==
    /\ CardShown(t)
    /\ ~isBusy(t)
    /\ Request([app EXCEPT !.busyTaskId = t, !.error = NoMessage],
               Op("delete", t, "-"))

handleDeleteTask(t) ==
    /\ CardShown(t)
    /\ ~isBusy(t)
    /\ Commit([app EXCEPT !.pendingDeleteTask = t], ops)

\* Reached through the dialog's overlay, which is never disabled.
handleCancelDelete ==
    /\ MainUI
    /\ app.pendingDeleteTask # NoTask
    /\ IF app.busyTaskId # NoTask /\ app.busyTaskId = app.pendingDeleteTask
       THEN Commit(app, ops)
       ELSE Commit([app EXCEPT !.pendingDeleteTask = NoTask], ops)

\* ------------------------------------------------ task mutation coordinator
\* TaskForm.handleSubmit with a valid title, then handleFormSubmit.
handleCreateTask(st) ==
    /\ MainUI /\ app.isFormVisible /\ ~app.isSubmitting
    /\ app.editingTask = NoTask
    /\ Request([app EXCEPT !.isSubmitting = TRUE, !.error = NoMessage],
               Op("create", NoTask, st))

handleUpdateTask(st) ==
    /\ MainUI /\ app.isFormVisible /\ ~app.isSubmitting
    /\ app.editingTask # NoTask
    /\ Request([app EXCEPT !.isSubmitting = TRUE, !.error = NoMessage],
               Op("update", app.editingTask, st))

\* The OK button of the dialog is disabled while the staged task is busy.
handleConfirmDelete ==
    /\ MainUI
    /\ app.pendingDeleteTask # NoTask
    /\ ~isBusy(app.pendingDeleteTask)
    /\ Request([app EXCEPT !.busyTaskId = app.pendingDeleteTask, !.error = NoMessage],
               Op("delete", app.pendingDeleteTask, "-"))

handleUpdateStatus(t, nextStatus) ==
    /\ CardShown(t)
    /\ ~isBusy(t)
    /\ nextStatus \in columns[app.tasks[t]]
    /\ Request([app EXCEPT !.busyTaskId = t, !.error = NoMessage],
               Op("status", t, nextStatus))

\* -------------------------------------------------------- the remote service
Exists(t) == t \in TaskIds /\ serverTasks[t] # Absent

\* The task list after the server has carried mutation o out.
Applied(o) ==
    CASE o.kind = "create" -> [serverTasks EXCEPT ![nextId] = o.st]
      [] o.kind \in {"update", "status"} -> [serverTasks EXCEPT ![o.task] = o.st]
      [] o.kind = "delete" -> [serverTasks EXCEPT ![o.task] = Absent]
      [] OTHER -> serverTasks

\* The server can carry a mutation out: it has the task, or an id to give.
Applicable(o) ==
    IF o.kind = "create" THEN nextId \in TaskIds ELSE Exists(o.task)

\* The server carries out the mutation a handler asked for (its 2xx answer is
\* then on its way); every list read before is now out of date.
Apply(o) ==
    /\ InFlight(o)
    /\ o.kind \in MutationKinds /\ o.pc = "sent"
    /\ Applicable(o)
    /\ serverTasks' = Applied(o)
    /\ nextId' = IF o.kind = "create" THEN nextId + 1 ELSE nextId
    /\ ops' = Put([o EXCEPT !.pc = "applied"], Stale(Take(o, ops)))
    /\ UNCHANGED <<app, fetches, limit, authForm, taskList, extracted>>

\* The server reads the task list for a GET /api/tasks (its 2xx answer is then
\* on its way): that of refreshTasks run by the effect, or nested in a mutation.
Read(o) ==
    /\ InFlight(o)
    /\ \/ o.kind = "tasks" /\ o.pc = "sent"
       \/ o.kind \in MutationKinds /\ o.pc = "rsent"
    /\ ops' = Put([o EXCEPT !.pc = IF o.pc = "sent" THEN "answered" ELSE "ranswered",
                            !.data = serverTasks, !.fresh = TRUE],
                  Take(o, ops))
    /\ UNCHANGED <<app, serverTasks, nextId, fetches, limit, authForm, taskList, extracted>>

\* ---------------------------------------------------------- handlers resuming
\* How a call can end for the handler that awaits it: "ok" a 2xx response,
\* "unauth" a 401, "error" another non-2xx response, "neterr" the fetch
\* rejecting.  A 2xx needs the server to have done its part (pc); a failure
\* can come at any time, a rejection even after the server has done its part.
Failures == {"unauth", "error", "neterr"}
Results == {"ok"} \cup Failures

CanEnd(o, pc, res) ==
    /\ InFlight(o)
    /\ \/ res = "ok" /\ o.pc = pc
       \/ res \in Failures /\ o.pc = (IF pc = "ranswered" THEN "rsent" ELSE "sent")
       \/ res = "neterr" /\ o.pc = pc

\* A handler without its finally block.
Finally_KeepsMarkers(kind, s) == s

\* A create / update handler that leaves the form open after its refresh.
AfterRefresh_KeepsForm(kind, s) ==
    CASE kind = "delete" -> [s EXCEPT !.pendingDeleteTask = NoTask]
      [] OTHER -> s

\* A delete handler that leaves the task staged after its refresh.
AfterRefresh_KeepsStaged(kind, s) ==
    CASE kind \in SubmitKinds -> closeForm(s)
      [] OTHER -> s

\* The finally block of a mutation handler.
Finally(kind, s) ==
    IF kind \in SubmitKinds
    THEN [s EXCEPT !.isSubmitting = FALSE]
    ELSE [s EXCEPT !.busyTaskId = NoTask]

\* What a mutation handler does after its awaited refreshTasks() returned.
AfterRefresh(kind, s) ==
    CASE kind \in SubmitKinds -> closeForm(s)
      [] kind = "delete" -> [s EXCEPT !.pendingDeleteTask = NoTask]
      [] OTHER -> s

\* A session check that stays loading when its fetch is rejected.
loadCurrentUser_NoFinally(o, res) ==
    /\ o.kind = "me" /\ CanEnd(o, "sent", res)
    /\ LET s == CASE res = "ok" ->
                       [app EXCEPT !.currentUser = TheUser, !.authError = NoMessage]
                  [] res = "neterr" -> app
                  [] OTHER -> resetSession(app, NoMessage)
       IN Commit([s EXCEPT !.authLoading = (res = "neterr")], Take(o, ops))

\* loadCurrentUser from the response of GET /api/auth/me on.
loadCurrentUser(o, res) ==
    /\ o.kind = "me" /\ CanEnd(o, "sent", res)
    /\ LET s == CASE res = "ok" ->
                       [app EXCEPT !.currentUser = TheUser, !.authError = NoMessage]
                  [] res = "neterr" -> app
                  [] OTHER -> resetSession(app, NoMessage)
       IN Commit([s EXCEPT !.authLoading = FALSE], Take(o, ops))

\* A sign-in that leaves the auth mode as it is.
handleLoginDone_KeepsMode(o, res) ==
    /\ o.kind \in AuthKinds /\ CanEnd(o, "sent", res)
    /\ LET s == IF res = "ok"
                THEN [app EXCEPT !.currentUser = TheUser, !.authError = NoMessage]
                ELSE [app EXCEPT !.authError = ErrorMessage]
       IN Commit([s EXCEPT !.authSubmitting = FALSE], Take(o, ops))

\* handleLogin / handleRegister from the response on (any non-2xx is a failure).
handleLoginDone(o, res) ==
    /\ o.kind \in AuthKinds /\ CanEnd(o, "sent", res)
    /\ LET s == IF res = "ok"
                THEN [app EXCEPT !.currentUser = TheUser, !.authMode = "login",
                                 !.authError = NoMessage]
                ELSE [app EXCEPT !.authError = ErrorMessage]
       IN Commit([s EXCEPT !.authSubmitting = FALSE], Take(o, ops))

\* A logout that resets the session only when its call succeeded.
handleLogoutDone_OnSuccessOnly(o, res) ==
    /\ o.kind = "logout" /\ CanEnd(o, "sent", res)
    /\ Commit(IF res = "ok" THEN resetSession(app, NoMessage) ELSE app, Take(o, ops))

\* handleLogout from the end of its call on: the reset is unconditional.
handleLogoutDone(o, res) ==
    /\ o.kind = "logout" /\ CanEnd(o, "sent", res)
    /\ Commit(resetSession(app, NoMessage), Take(o, ops))

\* loadUsers (started by the effect) from the response on.
loadUsersEnd(o, res) ==
    /\ o.kind = "users" /\ CanEnd(o, "sent", res)
    /\ Commit(loadUsersDone(app, res), Take(o, ops))

\* refreshTasks (started by the effect) from the response on.
refreshTasksEnd(o, res) ==
    /\ o.kind = "tasks" /\ CanEnd(o, "answered", res)
    /\ Commit(refreshTasksDone(app, res, o.data), Take(o, ops))

\* A mutation handler that refreshes the list after a failure as well.
MutationAnswered_RefreshesOnFailure(o, res) ==
    /\ o.kind \in MutationKinds /\ CanEnd(o, "applied", res)
    /\ CASE res = "unauth" ->
              Commit(Finally(o.kind, handleUnauthorized(app)), Take(o, ops))
         [] OTHER ->
              Commit([app EXCEPT !.tasksLoading = TRUE,
                                 !.error = IF res = "ok" THEN @ ELSE ErrorMessage],
                     Put([o EXCEPT !.pc = "rsent"], Take(o, ops)))

\* A mutation handler that releases its marker as soon as its own call has
\* succeeded, while its refresh is still to come.
MutationAnswered_ReleasesEarly(o, res) ==
    /\ o.kind \in MutationKinds /\ CanEnd(o, "applied", res)
    /\ CASE res = "ok" ->
              Commit(Finally(o.kind, [app EXCEPT !.tasksLoading = TRUE]),
                     Put([o EXCEPT !.pc = "rsent"], Take(o, ops)))
         [] res = "unauth" ->
              Commit(Finally(o.kind, handleUnauthorized(app)), Take(o, ops))
         [] OTHER ->
              Commit(Finally(o.kind, [app EXCEPT !.error = ErrorMessage]), Take(o, ops))

\* A mutation handler from the response of its own call on: a 401 resets the
\* session, another failure stores the message, a success starts the refresh.
MutationAnswered(o, res) ==
    /\ o.kind \in MutationKinds /\ CanEnd(o, "applied", res)
    /\ CASE res = "ok" ->
              Commit([app EXCEPT !.tasksLoading = TRUE],
                     Put([o EXCEPT !.pc = "rsent"], Take(o, ops)))
         [] res = "unauth" ->
              Commit(Finally(o.kind, handleUnauthorized(app)), Take(o, ops))
         [] OTHER ->
              Commit(Finally(o.kind, [app EXCEPT !.error = ErrorMessage]), Take(o, ops))

\* A mutation handler from the response of its nested refresh on.
MutationRefreshed(o, res) ==
    /\ o.kind \in MutationKinds /\ CanEnd(o, "ranswered", res)
    /\ Commit(Finally(o.kind, AfterRefresh(o.kind, refreshTasksDone(app, res, o.data))),
              Take(o, ops))

\* ----------------------------------------------------------- error extractor
\* JSON values as the extractor tells them apart: by typeof, and a string by
\* its characters.
Undefined == [type |-> "undefined", text |-> <<>>]
Number == [type |-> "number", text |-> <<>>]
Str(text) == [type |-> "string", text |-> text]

\* Error bodies: not JSON at all; the JSON null; an object whose errors field
\* is missing, not a list, or a list of up to MaxErrors entries (each with a
\* msg, or without one), and whose message field is missing, a number, or a
\* string (an empty one too).
Words == {<<"a">>, <<"b">>}
Entries == [msg : {Undefined} \cup {Str(w) : w \in Words}]
ErrorsFields ==
    {[type |-> "undefined", items |-> <<>>], [type |-> "string", items |-> <<>>]}
        \cup {[type |-> "array", items |-> e] :
                 e \in UNION {[1..n -> Entries] : n \in 0..MaxErrors}}
MessageFields == {Undefined, Number, Str(<<>>), Str(<<"m">>)}
NoFields == [errors |-> [type |-> "undefined", items |-> <<>>], message |-> Undefined]
Payloads ==
    {[kind |-> "unparsable", fields |-> NoFields], [kind |-> "null", fields |-> NoFields]}
        \cup {[kind |-> "object", fields |-> f] :
                 f \in [errors : ErrorsFields, message : MessageFields]}
Responses ==
    [status : {400, 500}, statusText : {<<>>, <<"B", "a", "d">>}, body : Payloads]

\* A number as a template literal writes it.
Digits == <<"0", "1", "2", "3", "4", "5", "6", "7", "8", "9">>
RECURSIVE Decimal(_)
Decimal(n) ==
    IF n < 10 THEN <<Digits[n + 1]>>
    ELSE Decimal(n \div 10) \o <<Digits[(n % 10) + 1]>>

\* Array.prototype.join on strings, and the Boolean() of a value.
RECURSIVE join(_, _)
join(strs, sep) ==
    IF strs = <<>> THEN <<>>
    ELSE IF Len(strs) = 1 THEN strs[1]
    ELSE strs[1] \o sep \o join(Tail(strs), sep)
Boolean(v) == v.type = "number" \/ (v.type = "string" /\ v.text # <<>>)

\* `${response.status} ${response.statusText}`
StatusLine(response) == Str(Decimal(response.status) \o <<" ">> \o response.statusText)

\* An extractor that looks at the message field before the errors list.
extractErrorMessage_MessageFirst(response) ==
    LET payload == response.body
        parsed == payload.kind # "unparsable"
        errors == payload.fields.errors
        msgs == SelectSeq([i \in DOMAIN errors.items |-> errors.items[i].msg], Boolean)
    IN IF parsed /\ payload.fields.message.type = "string"
       THEN payload.fields.message
       ELSE IF parsed /\ errors.type = "array" /\ Len(errors.items) > 0
       THEN Str(join([i \in DOMAIN msgs |-> msgs[i].text], <<",", " ">>))
       ELSE StatusLine(response)

\* extractErrorMessage: what it returns.  response.json() rejecting (parsed
\* false) lands in the catch block, which falls through to the status line.
extractErrorMessage(response) ==
    LET payload == response.body
        parsed == payload.kind # "unparsable"
        errors == payload.fields.errors
        msgs == SelectSeq([i \in DOMAIN errors.items |-> errors.items[i].msg], Boolean)
    IN IF parsed /\ errors.type = "array" /\ Len(errors.items) > 0
       THEN Str(join([i \in DOMAIN msgs |-> msgs[i].text], <<",", " ">>))
       ELSE IF parsed /\ payload.fields.message.type = "string"
       THEN payload.fields.message
       ELSE StatusLine(response)

\* No response is being looked at.
NoExtraction ==
    [response |-> [status |-> 0, statusText |-> <<>>,
                   body |-> [kind |-> "null", fields |-> NoFields]],
     called |-> FALSE, returned |-> Undefined]

\* A handler awaits extractErrorMessage(response); the promise settles.
extractErrorMessageCall ==
    /\ ~extracted.called
    /\ extracted' = [extracted EXCEPT !.called = TRUE,
                                      !.returned = extractErrorMessage(extracted.response)]
    /\ UNCHANGED <<app, ops, serverTasks, nextId, fetches, limit, authForm, taskList>>

\* -------------------------------------------------------- kanban categorizer
\* A task as TaskList sees it, and the lists it can be handed: tasks with
\* distinct ids in any order.
BoardTask == [id : 1..MaxBoardTasks, status : Status]
TaskLists ==
    {ts \in UNION {[1..n -> BoardTask] : n \in 0..MaxBoardTasks} :
        \A i, j \in DOMAIN ts : i # j => ts[i].id # ts[j].id}

\* The keys of the columns array, in its order, and the matcher of a column.
columnKeys == <<"todo", "in_progress", "done">>
matcher(key, task) == task.status = key

\* A board that leaves the tasks of a muted column out.
TaskList_HidesMuted(tasks, activeFilter) ==
    [c \in DOMAIN columnKeys |->
        LET key == columnKeys[c]
            muted == activeFilter # "all" /\ activeFilter # key
            columnTasks == IF muted THEN <<>>
                           ELSE SelectSeq(tasks, LAMBDA task : matcher(key, task))
        IN [key |-> key, muted |-> muted, columnTasks |-> columnTasks,
            count |-> Len(columnTasks)]]

\* What TaskList renders: for each column its key, whether it is muted, its
\* cards and the count in its header.
TaskList(tasks, activeFilter) ==
    [c \in DOMAIN columnKeys |->
        LET key == columnKeys[c]
            columnTasks == SelectSeq(tasks, LAMBDA task : matcher(key, task))
            muted == activeFilter # "all" /\ activeFilter # key
        IN [key |-> key, muted |-> muted, columnTasks |-> columnTasks,
            count |-> Len(columnTasks)]]

\* TaskList is not on screen.
NoBoard == [tasks |-> <<>>, activeFilter |-> "all", sections |-> <<>>]

\* A filter button: App renders TaskList again with the new filter.
TaskListFilter(f) ==
    /\ taskList.sections # <<>>
    /\ f # taskList.activeFilter
    /\ taskList' = [taskList EXCEPT !.activeFilter = f,
                                    !.sections = TaskList(taskList.tasks, f)]
    /\ UNCHANGED <<app, ops, serverTasks, nextId, fetches, limit, authForm, extracted>>

\* --------------------------------------------------------------- the system
\* The component has just mounted: the session check is under way; the server
\* holds no task yet, or MaxTasks tasks from earlier sessions.
Mounted ==
    /\ app = InitApp
    /\ ops = SetToBag({Op("me", NoTask, "-")})
    /\ authForm = InitAuthForm
    /\ taskList = NoBoard
    /\ extracted = NoExtraction
    /\ \E n \in {0, MaxTasks} :
          /\ serverTasks = [i \in TaskIds |-> IF i <= n THEN "todo" ELSE Absent]
          /\ nextId = n + 1
    /\ fetches = Cost("me")

Init == Mounted /\ limit = MaxFetches

InitView == Mounted /\ limit = MaxViewFetches

\* The events that start, steer or end a handler.
\* One session: what can happen from the mount on without the user signing in
\* through the auth form.
Session ==
    \/ handleLogout
    \/ openCreateForm
    \/ \E t \in TaskIds : onEdit(t)
    \/ CloseFormClick
    \/ \E t \in TaskIds : handleDeleteTask(t)
    \/ handleCancelDelete
    \/ \E st \in Status : handleCreateTask(st)
    \/ \E st \in Status : handleUpdateTask(st)
    \/ handleConfirmDelete
    \/ \E t \in TaskIds, st \in Status : handleUpdateStatus(t, st)
    \/ \E o \in BagToSet(ops) : Apply(o)
    \/ \E o \in BagToSet(ops) : Read(o)
    \/ \E o \in BagToSet(ops), res \in Results : loadCurrentUser(o, res)
    \/ \E o \in BagToSet(ops), res \in Results : handleLogoutDone(o, res)
    \/ \E o \in BagToSet(ops), res \in Results : loadUsersEnd(o, res)
    \/ \E o \in BagToSet(ops), res \in Results : refreshTasksEnd(o, res)
    \/ \E o \in BagToSet(ops), res \in Results : MutationAnswered(o, res)
    \/ \E o \in BagToSet(ops), res \in Results : MutationRefreshed(o, res)

\* Signing in through the auth form (any non-2xx answer is a failure).
SignIn ==
    \/ SubmitAuth
    \/ \E o \in BagToSet(ops), res \in Results \ {"unauth"} : handleLoginDone(o, res)

Next == Session \/ SignIn

\* The events that only write cells no handler reads (filter, error,
\* authMode / authError).
ViewEvents ==
    \/ \E m \in AuthKinds : handleModeToggle(m)
    \/ \E f \in FilterOption : setFilter(f)
    \/ DismissError

NextView == Session \/ ViewEvents

\* The auth screen followed field by field, up to the first sign-in.
AuthScreen ==
    \/ \E field \in AuthFields.register, value \in Texts \cup Passwords :
          onChange(field, value)
    \/ \E m \in AuthKinds : handleModeToggle(m)
    \/ AuthFormSubmit
    \/ \E o \in BagToSet(ops), res \in Results : loadCurrentUser(o, res)
    \/ \E o \in BagToSet(ops), res \in Results \ {"unauth"} : handleLoginDone(o, res)

InitAuth == Mounted /\ limit = MaxAuthFetches

\* The App cells at rest, for the components followed on their own.
AppAtRest ==
    /\ app = [InitApp EXCEPT !.currentUser = TheUser, !.authLoading = FALSE]
    /\ ops = EmptyBag
    /\ authForm = InitAuthForm
    /\ serverTasks = NoTasks /\ nextId = 1
    /\ fetches = 0 /\ limit = 0

\* TaskList gets a task list and is rendered with the filter at 'all'.
InitTaskList ==
    /\ AppAtRest
    /\ extracted = NoExtraction
    /\ \E ts \in TaskLists :
          taskList = [tasks |-> ts, activeFilter |-> "all", sections |-> TaskList(ts, "all")]

NextTaskList == \E f \in FilterOption : TaskListFilter(f)

\* The controller under every interleaving of its handlers.
Spec == Init /\ [][Next]_vars

\* One session of the controller, with the view-only events as well.
SpecView == InitView /\ [][NextView]_vars

\* The auth screen, with the form's own cells.
SpecAuth == InitAuth /\ [][AuthScreen]_vars

\* A session under way: the session check has found the user and both loads
\* have brought the server's lists, MaxTasks tasks to do.
Loaded ==
    /\ serverTasks = [i \in TaskIds |-> "todo"]
    /\ nextId = MaxTasks + 1
    /\ app = [InitApp EXCEPT !.currentUser = TheUser, !.authLoading = FALSE,
                             !.tasks = serverTasks, !.users = ServerUsers]
    /\ ops = EmptyBag
    /\ authForm = InitAuthForm
    /\ taskList = NoBoard
    /\ extracted = NoExtraction
    /\ fetches = Cost("me")

InitCards == Loaded /\ limit = MaxCardFetches

\* What the buttons of the task cards and of the delete dialog start, and how
\* it ends.
CardEvents ==
    \/ \E t \in TaskIds : handleDeleteTask(t)
    \/ handleCancelDelete
    \/ handleConfirmDelete
    \/ \E t \in TaskIds, st \in Status : handleUpdateStatus(t, st)
    \/ \E o \in BagToSet(ops) : Apply(o)
    \/ \E o \in BagToSet(ops) : Read(o)
    \/ \E o \in BagToSet(ops), res \in Results : MutationAnswered(o, res)
    \/ \E o \in BagToSet(ops), res \in Results : MutationRefreshed(o, res)

\* The status changes and deletions of one loaded session.
SpecCards == InitCards /\ [][CardEvents]_vars

\* A failed response has arrived and is about to be handed to the extractor.
InitExtract ==
    /\ AppAtRest
    /\ taskList = NoBoard
    /\ \E r \in Responses : extracted = [NoExtraction EXCEPT !.response = r]

NextExtract == extractErrorMessageCall

\* The extractor on every failed response.
SpecExtract == InitExtract /\ [][NextExtract]_vars

\* The board under every sequence of filter changes.
SpecTaskList == InitTaskList /\ [][NextTaskList]_vars

\* ------------------------------------------------------------------ claims
Handlers == BagToSet(ops)
Mutations == {o \in Handlers : o.kind \in MutationKinds}
\* The mutation's own remote call is under way (not yet its nested refresh).
CallInFlight(o) == o.kind \in MutationKinds /\ o.pc \in {"sent", "applied"}
\* Handler o resumes in this step: it is no longer suspended where it was.
Resumed(o) == CopiesIn(o, ops') < CopiesIn(o, ops)
\* The number of handlers in bag B that satisfy P.
Count(B, P(_)) == BagCardinality([o \in {x \in BagToSet(B) : P(x)} |-> B[o]])
\* The server has applied a mutation that shows in its list.
Mutated ==
    \E t \in TaskIds : \/ serverTasks[t] \notin {"todo", Absent}
                       \/ t < nextId /\ serverTasks[t] = Absent

\* C1 (as stated): whenever a mutation whose remote call succeeded finishes,
\* the local task collection equals the server's current task list.
C1_RefreshConsistency ==
    [][\A o \in Handlers, res \in Results :
          MutationRefreshed(o, res) => app'.tasks = serverTasks']_vars

\* C1 (amended): whenever a mutation whose remote call and nested refresh both
\* succeeded finishes, the local task collection is exactly the list that
\* refresh returned, and it is the server's current list if the server has
\* applied no mutation since it read that list.
C1_RefreshSnapshot ==
    [][\A o \in Handlers :
          (Resumed(o) /\ MutationRefreshed(o, "ok")) =>
              /\ app'.tasks = o.data
              /\ o.fresh => app'.tasks = serverTasks']_vars

\* The one mutation of the run has finished and its refresh has put the list
\* the server holds since in place, while the list load started by the effect
\* is still waiting to be served.
C1_Witness ==
    /\ Mutations = {}
    /\ \E o \in Handlers : o.kind = "tasks" /\ o.pc = "sent"
    /\ Mutated
    /\ fetches = Cost("me") + Cost("create")
    /\ app.tasks = serverTasks

\* What C2 asks of the state once a 401 has been handled.
SessionReset(s) ==
    /\ s.currentUser = NoUser
    /\ s.tasks = NoTasks
    /\ s.users = {}
    /\ s.pendingDeleteTask = NoTask
    /\ s.busyTaskId = NoTask
    /\ s.filter = "all"
    /\ ~s.isFormVisible /\ s.editingTask = NoTask
    /\ s.error = NoMessage
    /\ s.authError = SessionExpired

\* C2: whenever an authenticated call (user-list fetch, task-list fetch, a
\* mutation, or the refresh nested in a mutation) ends with a 401, the state
\* its handler leaves is the reset state, with no error banner and with
\* authError the session-expired message.
C2_UnauthorizedResets ==
    [][\A o \in Handlers :
          (/\ Resumed(o)
           /\ \/ loadUsersEnd(o, "unauth")
              \/ refreshTasksEnd(o, "unauth")
              \/ MutationAnswered(o, "unauth")
              \/ MutationRefreshed(o, "unauth")) => SessionReset(app')]_vars

\* A 401 has been handled while another mutation is still under way.
C2_Witness ==
    /\ SessionReset(app)
    /\ Mutations # {}

\* C3 (as stated): at most one task mutation request is in flight at any time.
C3_GlobalLock == Count(ops, CallInFlight) <= 1

\* C4 (as stated): while the remote call of a mutation is in flight, the busy
\* marker is set.
C4_BusyWhileInFlight ==
    \A o \in Handlers : CallInFlight(o) => app.busyTaskId # NoTask

\* C5: in every state in which no mutation is in flight or awaiting its
\* refresh the busy marker is absent, and the submitting flag is down when no
\* create or update is.
C5_BusyClearedWhenIdle ==
    /\ Mutations = {} => app.busyTaskId = NoTask
    /\ (\A o \in Mutations : o.kind \notin SubmitKinds) => ~app.isSubmitting

\* The one mutation of the run has failed and left its message; nothing is
\* under way and the markers are clear.
C5_Witness ==
    /\ MainUI
    /\ ops = EmptyBag
    /\ fetches = Cost("me") + Cost("status")
    /\ app.error = ErrorMessage
    /\ app.busyTaskId = NoTask /\ ~app.isSubmitting

\* A delete handler for the staged task is suspended (state 'confirming').
Confirming ==
    \E o \in Handlers : o.kind = "delete" /\ o.task = app.pendingDeleteTask

\* C6 (as stated): while a delete for the staged task is in flight,
\* cancelDelete leaves pendingDeletion staged.
C6_CancelIgnoredWhileConfirming ==
    [][(Confirming /\ handleCancelDelete) =>
          app'.pendingDeleteTask = app.pendingDeleteTask]_vars

\* C7 (as stated): when the remote delete fails (non-401), pendingDeletion
\* afterwards holds the task that delete was confirmed for and an error is
\* stored; when it succeeds pendingDeletion is absent afterwards.
C7_FailedDeleteKeepsStaged ==
    [][\A o \in Handlers, res \in Results :
          (o.kind = "delete" /\ Resumed(o)) =>
              /\ (res \in {"error", "neterr"} /\ MutationAnswered(o, res)) =>
                    (app'.pendingDeleteTask = o.task /\ app'.error # NoMessage)
              /\ MutationRefreshed(o, res) => app'.pendingDeleteTask = NoTask]_vars

\* C7 (amended): when the remote delete fails (non-401), the handler leaves
\* pendingDeletion exactly as it was when the response arrived and stores an
\* error; when it succeeds pendingDeletion is absent afterwards.
C7_FailedDeleteLeavesStaged ==
    [][\A o \in Handlers, res \in Results :
          (o.kind = "delete" /\ Resumed(o)) =>
              /\ (res \in {"error", "neterr"} /\ MutationAnswered(o, res)) =>
                    (app'.pendingDeleteTask = app.pendingDeleteTask
                     /\ app'.error = ErrorMessage)
              /\ MutationRefreshed(o, res) => app'.pendingDeleteTask = NoTask]_vars

\* The server carried the staged task's delete out, the answer was lost, and
\* the handler has ended: the task is still staged, with an error stored.
C7_Witness ==
    /\ \E t \in TaskIds : /\ app.pendingDeleteTask = t
                          /\ t < nextId /\ serverTasks[t] = Absent
    /\ Mutations = {}
    /\ app.error = ErrorMessage
    /\ app.busyTaskId = NoTask

\* DELETE requests for task t that are on their way to the server.
Deletes(B, t) == CopiesIn(Op("delete", t, "-"), B)

\* C8: staging a deletion changes pendingDeletion only and sends nothing; a
\* DELETE for a task leaves only in handleConfirmDelete, and only while that
\* task is the staged one (so never with nothing staged).
C8_TwoPhaseDelete ==
    [][/\ \A t \in TaskIds :
             Deletes(ops', t) > Deletes(ops, t) =>
                 (handleConfirmDelete /\ app.pendingDeleteTask = t)
       /\ \A t \in TaskIds :
             (app'.pendingDeleteTask = t /\ handleDeleteTask(t)) =>
                 /\ ops' = ops
                 /\ app' = [app EXCEPT !.pendingDeleteTask = t]
                 /\ UNCHANGED <<serverTasks, nextId, fetches, authForm>>]_vars

\* The DELETE for the staged task is on its way.
C8_Witness ==
    \E t \in TaskIds : Deletes(ops, t) > 0 /\ app.pendingDeleteTask = t

\* C9 (as stated): while identity is absent, both collections are empty and
\* no deletion is pending.
C9_AbsentIdentityEmptyCollections ==
    app.currentUser = NoUser =>
        (app.tasks = NoTasks /\ app.users = {} /\ app.pendingDeleteTask = NoTask)

\* An authenticated request (list fetch, mutation, nested refresh) that has
\* left and has not been served yet.
Unserved(o) ==
    o.kind \in FetchKinds \cup MutationKinds /\ o.pc \in {"sent", "rsent"}

\* C10 (as stated): no task-list fetch, user-list fetch or mutation request is
\* issued while identity is absent.
C10_NoRequestWithoutIdentity ==
    [][Count(ops', Unserved) > Count(ops, Unserved) => app'.currentUser # NoUser]_vars

\* GET requests of the effects' loads that are on their way to the server.
Loads(B, kind) == CopiesIn(Op(kind, NoTask, "-"), B)

\* C11: whenever identity goes from absent to present, a user-list fetch and a
\* task-list fetch leave in the same step; when such a fetch succeeds, the
\* collection is the list the server sent (its current list, if it has applied
\* no mutation since).
C11_LoadsOnIdentity ==
    [][/\ (app.currentUser = NoUser /\ app'.currentUser # NoUser) =>
             /\ Loads(ops', "users") > Loads(ops, "users")
             /\ Loads(ops', "tasks") > Loads(ops, "tasks")
       /\ \A o \in Handlers : Resumed(o) =>
             /\ loadUsersEnd(o, "ok") => app'.users = ServerUsers
             /\ refreshTasksEnd(o, "ok") =>
                   /\ app'.tasks = o.data
                   /\ o.fresh => app'.tasks = serverTasks']_vars

\* The session check found no session, the user signed in, and both loads
\* have brought the server's lists.
C11_Witness ==
    /\ fetches = Cost("me") + Cost("login")
    /\ app.currentUser = TheUser
    /\ ops = EmptyBag
    /\ app.users = ServerUsers
    /\ app.tasks = serverTasks /\ app.tasks # NoTasks

\* C12: a user-list or task-list fetch (that of an effect, or the refresh
\* nested in a mutation) that fails other than by a 401 leaves its collection
\* as it was and stores the message; one that succeeds replaces its collection
\* with the response and clears the error.
C12_FailedLoadKeepsCollection ==
    [][\A o \in Handlers : Resumed(o) =>
          /\ \A res \in {"error", "neterr"} :
                /\ loadUsersEnd(o, res) =>
                      (app'.users = app.users /\ app'.error = ErrorMessage)
                /\ (refreshTasksEnd(o, res) \/ MutationRefreshed(o, res)) =>
                      (app'.tasks = app.tasks /\ app'.error = ErrorMessage)
          /\ loadUsersEnd(o, "ok") =>
                (app'.users = ServerUsers /\ app'.error = NoMessage)
          /\ (refreshTasksEnd(o, "ok") \/ MutationRefreshed(o, "ok")) =>
                (app'.tasks = o.data /\ app'.error = NoMessage)]_vars

\* The task list has loaded and then the user-list fetch has failed: its
\* message is stored, the lists are as they were.
C12_Witness ==
    /\ MainUI
    /\ fetches = Cost("me")
    /\ ops = EmptyBag
    /\ app.error = ErrorMessage
    /\ app.users = {}
    /\ app.tasks = serverTasks /\ app.tasks # NoTasks

\* C13: a mutation whose remote call fails other than by a 401 stores the
\* message, leaves the task collection as it was and ends there: no task-list
\* refresh leaves.
C13_FailedMutationNoRefresh ==
    [][\A o \in Handlers, res \in {"error", "neterr"} :
          (Resumed(o) /\ MutationAnswered(o, res)) =>
              /\ app'.error = ErrorMessage
              /\ app'.tasks = app.tasks
              /\ ops' = Take(o, ops)
              /\ fetches' = fetches]_vars

\* The server has never held a task; the one create of the run has ended
\* without the server carrying it out, and the form is still open.
C13_Witness ==
    /\ MainUI
    /\ ops = EmptyBag
    /\ fetches = Cost("me") + Cost("create")
    /\ nextId = 1
    /\ app.tasks = NoTasks
    /\ app.error = ErrorMessage
    /\ app.isFormVisible /\ ~app.isSubmitting

\* C14 (as stated): after a create / update whose remote call succeeded the
\* form is closed and the edit target absent; after one that failed other than
\* by a 401 the form is open with the edit target it had when the call was
\* made.
C14_FormOpenAfterFailure ==
    [][\A o \in Handlers, res \in Results :
          (o.kind \in SubmitKinds /\ Resumed(o)) =>
              /\ MutationRefreshed(o, res) =>
                    (~app'.isFormVisible /\ app'.editingTask = NoTask)
              /\ (res \in {"error", "neterr"} /\ MutationAnswered(o, res)) =>
                    (app'.isFormVisible /\ app'.editingTask = o.task)]_vars

\* C14 (amended): after a create / update whose remote call succeeded the form
\* is closed and the edit target absent; one that failed other than by a 401
\* leaves the form and the edit target exactly as they were when the response
\* arrived.
C14_FormLeftAfterFailure ==
    [][\A o \in Handlers, res \in Results :
          (o.kind \in SubmitKinds /\ Resumed(o)) =>
              /\ MutationRefreshed(o, res) =>
                    (~app'.isFormVisible /\ app'.editingTask = NoTask)
              /\ (res \in {"error", "neterr"} /\ MutationAnswered(o, res)) =>
                    /\ app'.isFormVisible = app.isFormVisible
                    /\ app'.editingTask = app.editingTask]_vars

\* The one mutation of the run moved task t from todo to done, which only an
\* update does; the list was not refreshed and the form is open on t with
\* the message stored.
C14_Witness ==
    \E t \in TaskIds :
        /\ fetches = Cost("me") + Cost("update")
        /\ serverTasks[t] = "done"
        /\ app.tasks[t] = "todo"
        /\ ops = EmptyBag
        /\ app.isFormVisible /\ app.editingTask = t /\ ~app.isSubmitting
        /\ app.error = ErrorMessage

\* C15 (as stated): the task form is never open while a deletion is staged.
C15_FormOrPendingDeletion ==
    ~(app.isFormVisible /\ app.pendingDeleteTask # NoTask)

\* C16: a login or register call that fails (non-2xx answer or network error)
\* sets authError to the message and leaves identity and both collections as
\* they were; one that succeeds sets identity to the user of the response,
\* clears authError and sets the auth mode to login.
C16_SignInOutcome ==
    [][\A o \in Handlers : Resumed(o) =>
          /\ \A res \in {"error", "neterr"} :
                handleLoginDone(o, res) =>
                    /\ app'.authError = ErrorMessage
                    /\ app'.currentUser = app.currentUser
                    /\ app'.tasks = app.tasks /\ app'.users = app.users
          /\ handleLoginDone(o, "ok") =>
                /\ app'.currentUser = TheUser
                /\ app'.authError = NoMessage
                /\ app'.authMode = "login"]_vars

\* A register call has just failed: its message is shown in register mode,
\* over the fields that were sent.
C16_Witness ==
    /\ app.currentUser = NoUser
    /\ app.authMode = "register"
    /\ app.authError = ErrorMessage
    /\ ~app.authSubmitting
    /\ localValidation("register", authForm) = NoMessage
    /\ Handlers = {}

\* The state resetSession() leaves when called without a message.
LoggedOut(s) ==
    /\ s.currentUser = NoUser
    /\ s.tasks = NoTasks
    /\ s.users = {}
    /\ s.busyTaskId = NoTask
    /\ s.pendingDeleteTask = NoTask
    /\ s.filter = "all"
    /\ ~s.isFormVisible /\ s.editingTask = NoTask
    /\ s.authError = NoMessage
    /\ s.error = NoMessage

\* C17: when logout completes, whatever became of its remote call (2xx,
\* non-2xx, network failure), the state is the full reset state with authError
\* absent and no error.
C17_LogoutResets ==
    [][\A o \in Handlers, res \in Results :
          (Resumed(o) /\ handleLogoutDone(o, res)) => LoggedOut(app')]_vars

\* The session check found a session and the user has logged out since: no
\* logout is under way and the state is the reset state.
C17_Witness ==
    /\ fetches = Cost("me") + Cost("logout")
    /\ \A o \in Handlers : o.kind # "logout"
    /\ ~app.authLoading
    /\ LoggedOut(app)

\* C18: the session check ends with authLoading false for every outcome of
\* GET /api/auth/me (2xx, 401, other non-2xx, network failure); identity is
\* present afterwards only after a 2xx; after any non-2xx answer the session
\* is reset, with authError absent.
C18_SessionCheckEnds ==
    [][\A o \in Handlers, res \in Results :
          (Resumed(o) /\ loadCurrentUser(o, res)) =>
              /\ ~app'.authLoading
              /\ app'.currentUser # NoUser => res = "ok"
              /\ res \in {"unauth", "error"} =>
                    (LoggedOut(app') /\ app'.authMode = "login")]_vars

\* The session check has ended without a session after the user had switched
\* to register and typed: the reset has put the mode back to login over the
\* typed fields.
C18_Witness ==
    /\ fetches = Cost("me")
    /\ ops = EmptyBag
    /\ ~app.authLoading
    /\ app.currentUser = NoUser
    /\ app.authMode = "login"
    /\ authForm.registerData # NoRegisterData

\* What the spec asks of the register fields d.
RegisterFieldsValid(d) ==
    /\ trim(d.name) # <<>> /\ trim(d.email) # <<>> /\ trim(d.password) # <<>>
    /\ Len(d.password) >= MinPassword
    /\ d.password = d.confirmPassword

\* C19 (as stated): a register submit sends the register call only if name,
\* email and password are non-empty after trimming, the password has at least
\* MinPassword characters and equals confirmPassword; otherwise nothing is
\* sent and a local error is set, 'Password must be at least 6 characters.'
\* for a password of three characters with the other fields filled.
C19_RegisterValidation ==
    [][(app.authMode = "register" /\ AuthFormSubmit) =>
          LET d == authForm.registerData
          IN /\ ~RegisterFieldsValid(d) =>
                   (ops' = ops /\ authForm'.localError # NoMessage)
             /\ (/\ trim(d.name) # <<>> /\ trim(d.email) # <<>>
                 /\ d.password = Repeat("a", 3)) =>
                   authForm'.localError = PasswordTooShort]_vars

\* C20 (as stated, for the auth form): after the user enters a value in any
\* field, the form shows no error, neither a local nor a server-sourced one.
C20_TypingClearsError ==
    [][(\E field \in AuthFields.register, value \in Texts \cup Passwords :
            onChange(field, value)) =>
          (authForm'.localError = NoMessage /\ app'.authError = NoMessage)]_vars

\* The cards of all columns of a board, column after column.
RECURSIVE Cards(_)
Cards(sections) ==
    IF sections = <<>> THEN <<>> ELSE Head(sections).columnTasks \o Cards(Tail(sections))

\* C21: on every render of the board, for every task list and every filter,
\* each task is on exactly one card over the three columns and every card is
\* a task of the list; the column of status s holds exactly the tasks of the
\* list with status s, in the order of the list, and its header counts them;
\* a change of the filter changes no column's cards and no count.
C21_KanbanPartition ==
    [][NextTaskList =>
          LET tasks == taskList'.tasks
              sections == taskList'.sections
              cards == Cards(sections)
          IN /\ \A i \in DOMAIN tasks :
                   Cardinality({k \in DOMAIN cards : cards[k] = tasks[i]}) = 1
             /\ \A k \in DOMAIN cards : \E i \in DOMAIN tasks : cards[k] = tasks[i]
             /\ \A s \in Status :
                   \E c \in DOMAIN sections :
                       /\ sections[c].key = s
                       /\ sections[c].columnTasks =
                              SelectSeq(tasks, LAMBDA task : task.status = s)
                       /\ sections[c].count = Len(sections[c].columnTasks)
             /\ Len(sections) = Cardinality(Status)
             /\ \A c \in DOMAIN sections :
                   /\ sections[c].columnTasks = taskList.sections[c].columnTasks
                   /\ sections[c].count = taskList.sections[c].count]_vars

\* The filter is on one column; another, muted, column shows two cards in the
\* order of the list, which is not the order of their ids.
C21_Witness ==
    /\ taskList.activeFilter = "done"
    /\ \E c \in DOMAIN taskList.sections :
          LET column == taskList.sections[c]
          IN /\ column.muted
             /\ column.count = 2
             /\ column.columnTasks[1].id > column.columnTasks[2].id

\* The msg fields that the entries of an errors list have.
RECURSIVE Messages(_)
Messages(items) ==
    IF items = <<>> THEN <<>>
    ELSE (IF Head(items).msg.type = "string" THEN <<Head(items).msg.text>> ELSE <<>>)
             \o Messages(Tail(items))

\* C22: the extractor always returns a string: if the body parses as JSON and
\* has a non-empty errors list, the msg fields of its entries joined with
\* ', '; else, if the body has a string message field, that message; else,
\* and when the body does not parse as JSON, '<status code> <status text>'.
C22_ErrorMessagePriority ==
    extracted.called =>
        LET response == extracted.response
            body == response.body
            hasErrors == /\ body.kind = "object"
                         /\ body.fields.errors.type = "array"
                         /\ body.fields.errors.items # <<>>
            hasMessage == body.kind = "object" /\ body.fields.message.type = "string"
        IN /\ extracted.returned.type = "string"
           /\ hasErrors =>
                 extracted.returned.text = join(Messages(body.fields.errors.items), <<",", " ">>)
           /\ (~hasErrors /\ hasMessage) =>
                 extracted.returned.text = body.fields.message.text
           /\ (~hasErrors /\ ~hasMessage) =>
                 extracted.returned.text =
                     Decimal(response.status) \o <<" ">> \o response.statusText

\* A body with two entries in its errors list and a message as well: the
\* extractor has returned the two msg fields, joined.
C22_Witness ==
    /\ extracted.called
    /\ extracted.response.body.fields.message = Str(<<"m">>)
    /\ Len(extracted.response.body.fields.errors.items) = MaxErrors
    /\ extracted.returned = Str(<<"a", ",", " ", "b">>)

\* C23: the refresh nested in a mutation leaves only in the step in which the
\* handler receives the 2xx answer of its own call, and that step leaves the
\* task collection, the busy marker and the submitting flag as they were; the
\* handler clears its marker (or flag) in the step in which its refresh ends,
\* and the collection it then leaves is the list the refresh returned.
C23_MutationThenRefreshThenRelease ==
    [][/\ \A r \in BagToSet(ops') :
             (r.pc = "rsent" /\ CopiesIn(r, ops') > CopiesIn(r, ops)) =>
                 \E o \in Handlers : o.pc = "applied" /\ MutationAnswered(o, "ok")
       /\ \A o \in Handlers : Resumed(o) =>
             /\ MutationAnswered(o, "ok") =>
                   /\ ops' = Put([o EXCEPT !.pc = "rsent"], Take(o, ops))
                   /\ app'.tasks = app.tasks
                   /\ app'.busyTaskId = app.busyTaskId
                   /\ app'.isSubmitting = app.isSubmitting
             /\ \A res \in Results :
                   MutationRefreshed(o, res) =>
                       /\ IF o.kind \in SubmitKinds
                          THEN ~app'.isSubmitting
                          ELSE app'.busyTaskId = NoTask
                       /\ res = "ok" => app'.tasks = o.data]_vars

\* A status change has been answered with a 2xx and its refresh is under way:
\* the marker is still on its task and the collection still shows the old
\* status.
C23_Witness ==
    \E o \in Handlers :
        /\ o.kind = "status" /\ o.pc \in {"rsent", "ranswered"}
        /\ app.busyTaskId = o.task
        /\ serverTasks[o.task] = o.st
        /\ app.tasks[o.task] # o.st

\* C24 (as stated): when the form is open on another target than the one a
\* create / update still under way was submitted for (the form was closed and
\* opened again since), that request goes on to its refresh on success, and
\* neither its 2xx answer nor the end of its refresh closes the form or
\* changes its edit target.
C24_ReopenedFormUntouched ==
    [][\A o \in Handlers :
          (/\ o.kind \in SubmitKinds /\ Resumed(o)
           /\ app.isFormVisible /\ app.editingTask # o.task) =>
              /\ MutationAnswered(o, "ok") =>
                    /\ ops' = Put([o EXCEPT !.pc = "rsent"], Take(o, ops))
                    /\ app'.isFormVisible /\ app'.editingTask = app.editingTask
              /\ MutationRefreshed(o, "ok") =>
                    /\ app'.isFormVisible /\ app'.editingTask = app.editingTask]_vars

\* C25 (as stated): at most one DELETE request for a given task is under way
\* at any time.
C25_OneDeletePerTask ==
    \A t \in TaskIds :
        Count(ops, LAMBDA o : o.kind = "delete" /\ o.task = t /\ CallInFlight(o)) <= 1

\* C26 (as stated): while only the two loads of the effects have been started,
\* an error on show with the user-list fetch still under way is the one the
\* failed task-list fetch stored, and the end of the user-list fetch (other
\* than by a 401) leaves it on show; and the same with the two fetches
\* exchanged.
C26_ErrorOutlivesOtherLoad ==
    [][\A o \in Handlers, res \in Results \ {"unauth"} :
          (/\ Resumed(o)
           /\ fetches = Cost("me")
           /\ app.error = ErrorMessage
           /\ loadUsersEnd(o, res) \/ refreshTasksEnd(o, res)) =>
              app'.error = ErrorMessage]_vars

\* A GET of the task list is under way: that of the effect's refreshTasks, or
\* the one nested in a mutation.
TasksFetchInFlight ==
    \E o \in Handlers :
        o.kind = "tasks" \/ (o.kind \in MutationKinds /\ o.pc \in {"rsent", "ranswered"})
UsersFetchInFlight == \E o \in Handlers : o.kind = "users"

\* C27 (as stated): while a task-list fetch is in flight tasksLoading is true,
\* while a user-list fetch is in flight usersLoading is true, and the combined
\* loading signal is true while either is.
C27_LoadingTracksFetches ==
    /\ TasksFetchInFlight => app.tasksLoading
    /\ UsersFetchInFlight => app.usersLoading
    /\ (TasksFetchInFlight \/ UsersFetchInFlight) => isLoading

====
